---- MODULE Spec2Model ----
(***************************************************************************)
(* Model of the wbor-groupme consumer: the pika consumption loop           *)
(* (rabbitmq/consumer.py consume_messages) and the per-delivery callback   *)
(* (rabbitmq/consumer.py callback), with the configuration of config.py,   *)
(* and of the delivery engine the handlers call (utils/groupme.py,         *)
(* rabbitmq/publisher.py).                                                 *)
(*                                                                         *)
(* Spec is the consumer fed from every delivery, LoopSpec the same loop    *)
(* with fairness on its own steps, EngineSpec the calls of the delivery    *)
(* engine, each started from its arguments and the answers of the network. *)
(*                                                                         *)
(* A Python dict value is a record [p, v]: p says the key is present       *)
(* (dict.get gives None when it is not), v is the value.  Text is a        *)
(* sequence of characters, a routing key is the sequence of its            *)
(* dot-separated segments.                                                 *)
(***************************************************************************)
EXTENDS Integers, Sequences, FiniteSets, TLC

\* ------------------------------------------------------------------ bounds
MaxDeliveries == 2
MaxCalls == 1

\* ----------------------------------------------------------- configuration
TWILIO_SOURCE == "twilio"

GLOBAL_BLOCKLIST ==
    { <<"source", "twilio", "sms", "outgoing">>,
      <<"source", "twilio", "call-events">>,
      <<"source", "twilio", "voice-intelligence">> }

\* consumer.py imports the routing-key blocklist of config.py as BLOCKLIST
BLOCKLIST == GLOBAL_BLOCKLIST

\* rabbitmq/handlers.py: the sources with a registered handler
MESSAGE_HANDLERS == {"twilio", "standard"}

\* ------------------------------------------------------------ Python values
NoStr == [p |-> FALSE, v |-> ""]
NoText == [p |-> FALSE, v |-> <<>>]
Str(s) == [p |-> TRUE, v |-> s]
Text(t) == [p |-> TRUE, v |-> t]

\* truthiness of dict.get(key): present and not empty
TruthyStr(x) == x.p /\ x.v # ""
TruthyText(x) == x.p /\ x.v # <<>>

\* Python's `a or b` on two dict.get results
OrStr(a, b) == IF TruthyStr(a) THEN a ELSE b
OrText(a, b) == IF TruthyText(a) THEN a ELSE b

\* --------------------------------------------------------------- the inputs
Printable == {"a"}

FromValues == {NoStr, Str("+1")}
SourceValues == {NoStr, Str("twilio"), Str("standard"), Str("other")}
UpperBodyValues == {NoText, Text(<<>>), Text(<<"u">>), Text(<<"u", "a">>)}
LowerBodyValues == {NoText, Text(<<>>), Text(<<"a", "u">>)}
IdValues == {NoText, Text(<<>>), Text(<<"abc", "-", "123">>)}

Messages ==
    [From : FromValues, source : SourceValues, Body : UpperBodyValues,
     body : LowerBodyValues, wbor_message_id : IdValues]

EmptyMessage ==
    [From |-> NoStr, source |-> NoStr, Body |-> NoText, body |-> NoText,
     wbor_message_id |-> NoText]

\* the payload bytes, by what json.loads makes of them
Payloads ==
    {[kind |-> k, message |-> EmptyMessage] : k \in {"badutf8", "badjson", "nonobject"}}
    \cup {[kind |-> "object", message |-> m] : m \in Messages}

RoutingKeys ==
    { <<"source", "twilio", "sms", "incoming">>,
      <<"source", "twilio", "sms", "outgoing">>,
      <<"source", "standard", "msg">>,
      <<"source", "other", "x">> }

\* properties.headers: None, or a table in which `alreadysent` may be set
NoHeaders == [table |-> FALSE, alreadysent |-> [p |-> FALSE, v |-> FALSE]]
HeaderValues ==
    { NoHeaders,
      [table |-> TRUE, alreadysent |-> [p |-> FALSE, v |-> FALSE]],
      [table |-> TRUE, alreadysent |-> [p |-> TRUE, v |-> FALSE]],
      [table |-> TRUE, alreadysent |-> [p |-> TRUE, v |-> TRUE]] }

ReplyToValues == {NoStr, Str("amq.reply")}
CorrelationValues == {NoStr, Str("corr-1")}

Deliveries ==
    [payload : Payloads, routing_key : RoutingKeys, headers : HeaderValues,
     reply_to : ReplyToValues, correlation_id : CorrelationValues]

NoDelivery ==
    [payload |-> [kind |-> "badjson", message |-> EmptyMessage],
     routing_key |-> <<"source">>, headers |-> NoHeaders,
     reply_to |-> NoStr, correlation_id |-> NoStr]

\* what the handler did, as the callback sees it: its result (or the exception
\* it raised) and the calls it made to the chat endpoint, the media endpoint
\* and the audit publisher
HandlerResults == {"true", "false", "KeyError", "fault"}
HandlerOutcomes ==
    { h \in [result : HandlerResults, posts : 0..MaxCalls, uploads : 0..MaxCalls,
             audits : 0..MaxCalls] : h.posts + h.uploads + h.audits <= MaxCalls }

\* MessageUtils.sanitize_string is given None when `Body` is an empty string and
\* `body` is missing: it either raises or hands the value back
SanitizeNoneOutcomes == {"raises", "returns"}

\* ------------------------------------------------------------ pure helpers
\* json.loads(body)
json_loads(payload) ==
    CASE payload.kind = "badutf8" -> [raised |-> "UnicodeDecodeError", object |-> FALSE]
      [] payload.kind = "badjson" -> [raised |-> "JSONDecodeError", object |-> FALSE]
      [] payload.kind = "nonobject" -> [raised |-> "none", object |-> FALSE]
      [] OTHER -> [raised |-> "none", object |-> TRUE]

\* copy.replace("source.", ""): every segment `source` followed by a dot goes
RECURSIVE stripped_key(_)
stripped_key(routing_key) ==
    IF Len(routing_key) <= 1 THEN routing_key
    ELSE IF Head(routing_key) = "source" THEN stripped_key(Tail(routing_key))
    ELSE <<Head(routing_key)>> \o stripped_key(Tail(routing_key))

Blocklisted(routing_key) == stripped_key(routing_key) \in BLOCKLIST

sender(message) == OrStr(message.From, message.source)

MissingRequiredFields(message) ==
    /\ ~TruthyStr(sender(message))
    /\ (~TruthyText(message.body) \/ ~TruthyText(message.Body))

original_body(message) == OrText(message.Body, message.body)

\* mutant: the allow-list is consulted only when the field is there
SourceAllowed_whenPresent(message) ==
    \/ ~message.source.p
    \/ message.source.v \in {TWILIO_SOURCE, "standard"}

\* mutant: any non-empty source passes
SourceAllowed_anyNonEmpty(message) == TruthyStr(message.source)

SourceAllowed(message) ==
    ~ ( /\ ~(message.source.p /\ message.source.v = TWILIO_SOURCE)
        /\ ~(message.source.p /\ message.source.v = "standard") )

alreadysent(headers) ==
    IF headers.alreadysent.p THEN headers.alreadysent.v ELSE FALSE

\* MessageUtils.sanitize_string: unprintable characters are stripped
sanitize_string(text) == SelectSeq(text, LAMBDA c : c \in Printable)

\* MessageUtils.gen_uuid: a fresh id, told apart by the delivery it is made for
gen_uuid(n) == <<ToString(n), "-", "uuid">>

\* mutant: the `alreadysent` header is not consulted
NeedsSanitizing_always(message, headers) == message.Body.p \/ message.body.p

NeedsSanitizing(message, headers) ==
    ~alreadysent(headers) /\ (message.Body.p \/ message.body.p)

SanitizesNone(message, headers) ==
    NeedsSanitizing(message, headers) /\ ~original_body(message).p

SanitizeBody(message, headers) ==
    IF ~NeedsSanitizing(message, headers) THEN message
    ELSE LET sanitized_body ==
                 IF original_body(message).p
                 THEN Text(sanitize_string(original_body(message).v))
                 ELSE NoText
         IN  IF TruthyText(message.Body)
             THEN [message EXCEPT !.Body = sanitized_body]
             ELSE [message EXCEPT !.body = sanitized_body]

\* mutant: an id is generated whether or not one was supplied
AssignUid_always(message, n) ==
    [message EXCEPT !.wbor_message_id = Text(gen_uuid(n))]

AssignUid(message, n) ==
    IF ~TruthyText(message.wbor_message_id)
    THEN [message EXCEPT !.wbor_message_id = Text(gen_uuid(n))]
    ELSE message

HandlerKey(routing_key) == routing_key[2]
subkey(routing_key) == SubSeq(routing_key, 3, Len(routing_key))

\* mutant: the correlation id is not asked for
ReplyDue_replyToOnly(d) == TruthyStr(d.reply_to)

ReplyDue(d) == TruthyStr(d.reply_to) /\ TruthyStr(d.correlation_id)

\* rabbitmq/util.py send_acknowledgment: a reply published to reply_to
send_acknowledgment(message, reply_to, correlation_id) ==
    [routing_key |-> reply_to.v, correlation_id |-> correlation_id.v,
     wbor_message_id |-> message.wbor_message_id.v]

basic_ack(tag) == [op |-> "basic_ack", delivery_tag |-> tag]
basic_nack(tag) == [op |-> "basic_nack", delivery_tag |-> tag, requeue |-> FALSE]

\* ------------------------------------------------------------- the callback
\* what one run of the callback has done
NoOutcome ==
    [decisions |-> <<>>, handlerCalls |-> <<>>, replies |-> <<>>, events |-> <<>>,
     fault |-> "none", sanitizeCalls |-> 0,
     posts |-> 0, uploads |-> 0, audits |-> 0]

\* mutant: the producer is answered on the reject path too
Rejected_withReply(o, d, tag) ==
    [o EXCEPT !.replies =
                  IF TruthyStr(d.reply_to) /\ TruthyStr(d.correlation_id)
                  THEN Append(@, send_acknowledgment(d.payload.message, d.reply_to,
                                                     d.correlation_id))
                  ELSE @,
              !.decisions = Append(@, basic_nack(tag)),
              !.events = Append(@, "basic_nack")]

\* ch.basic_nack(delivery_tag=method.delivery_tag, requeue=False); return
Rejected(o, d, tag) ==
    [o EXCEPT !.decisions = Append(@, basic_nack(tag)),
              !.events = Append(@, "basic_nack")]

\* an exception no except clause of the callback catches leaves it
Escaped(o, exception) == [o EXCEPT !.fault = exception]

\* lines 110-124 call sanitize_string once when the body is to be sanitized
Normalized(o, message, headers) ==
    [o EXCEPT !.sanitizeCalls = IF NeedsSanitizing(message, headers) THEN 1 ELSE 0]

\* handler.process_message(message, subkey, alreadysent) has been called
Invoked(o, d, message, h) ==
    [o EXCEPT !.handlerCalls =
                  Append(@, [handler |-> HandlerKey(d.routing_key),
                             message |-> message,
                             subkey |-> subkey(d.routing_key),
                             alreadysent |-> alreadysent(d.headers),
                             result |-> h.result]),
              !.events = Append(@, "process_message"),
              !.posts = h.posts, !.uploads = h.uploads, !.audits = h.audits]

\* if reply_to and correlation_id: send_acknowledgment(...)
Acknowledged(o, d, message) ==
    IF ReplyDue(d)
    THEN [o EXCEPT !.replies =
                       Append(@, send_acknowledgment(message, d.reply_to,
                                                     d.correlation_id)),
                   !.events = Append(@, "send_acknowledgment")]
    ELSE o

\* mutant: the delivery is acked whatever the handler returned
Settled_ackAlways(o, d, tag, message, result) ==
    LET a == Acknowledged(o, d, message)
    IN  [a EXCEPT !.decisions = Append(@, basic_ack(tag)),
                  !.events = Append(@, "basic_ack")]

\* lines 141-162: the handler's result settles the delivery
Settled(o, d, tag, message, result) ==
    IF result
    THEN LET a == Acknowledged(o, d, message)
         IN  [a EXCEPT !.decisions = Append(@, basic_ack(tag)),
                       !.events = Append(@, "basic_ack")]
    ELSE [o EXCEPT !.decisions = Append(@, basic_nack(tag)),
                   !.events = Append(@, "basic_nack")]

\* lines 130-165, from the handler lookup on
Dispatched(o, d, tag, message, h) ==
    IF HandlerKey(d.routing_key) \notin MESSAGE_HANDLERS
    THEN Rejected(o, d, tag)                       \* KeyError, caught at line 163
    ELSE LET i == Invoked(o, d, message, h)
         IN  CASE h.result = "true" -> Settled(i, d, tag, message, TRUE)
               [] h.result = "false" -> Settled(i, d, tag, message, FALSE)
               [] h.result = "KeyError" -> Rejected(i, d, tag)
               [] OTHER -> Escaped(i, "Exception")

\* callback(ch, method, properties, body) for delivery d with delivery tag `tag`,
\* handler outcome h and sanitize_string(None) outcome sn
callback(d, tag, h, sn) ==
    LET loaded == json_loads(d.payload)
        message == d.payload.message
    IN  IF loaded.raised = "JSONDecodeError" THEN Rejected(NoOutcome, d, tag)
        ELSE IF loaded.raised # "none" THEN Escaped(NoOutcome, loaded.raised)
        ELSE IF Blocklisted(d.routing_key) THEN Rejected(NoOutcome, d, tag)
        ELSE IF ~loaded.object THEN Escaped(NoOutcome, "AttributeError")
        ELSE IF MissingRequiredFields(message) THEN Rejected(NoOutcome, d, tag)
        ELSE IF ~SourceAllowed(message) THEN Rejected(NoOutcome, d, tag)
        ELSE IF ~d.headers.table THEN Escaped(NoOutcome, "AttributeError")
        ELSE IF SanitizesNone(message, d.headers) /\ sn = "raises"
             THEN Escaped(NoOutcome, "TypeError")
        ELSE Dispatched(Normalized(NoOutcome, message, d.headers), d, tag,
                        AssignUid(SanitizeBody(message, d.headers), tag), h)

\* the handler outcomes to tell apart for a delivery: one when the callback
\* returns before it calls the handler
NoCall == [result |-> "false", posts |-> 0, uploads |-> 0, audits |-> 0]
HandlerChoices(d) ==
    IF callback(d, 0, NoCall, "returns").handlerCalls # <<>>
    THEN HandlerOutcomes ELSE {NoCall}

SanitizeChoices(d) ==
    IF SanitizesNone(d.payload.message, d.headers)
    THEN SanitizeNoneOutcomes ELSE {"returns"}

\* --------------------------------------------------------------- the state
\* the consumer: consume_messages and the callback of the delivery in hand
VARIABLES loopState, pc, tag, delivery, decisions, handlerCalls,
          replies, events, fault, sanitizeCalls, chatPosts, mediaUploads,
          auditRecords

\* the broker as consume_messages meets it, the last broker error it was
\* handed, and the consumers registered on its channel
VARIABLES broker, brokerError, consumers

\* the delivery engine (utils/groupme.py, rabbitmq/publisher.py): the call
\* in hand, the HTTP requests it made, the audit records it emitted and how
\* it ended
VARIABLES call, requests, auditLog, outcome

\* the messages the direct-send route (routes/send.py) handed to the publisher
VARIABLES queued

vars == <<loopState, pc, tag, delivery, decisions, handlerCalls,
          replies, events, fault, sanitizeCalls, chatPosts, mediaUploads,
          auditRecords, broker, brokerError, consumers,
          call, requests, auditLog, outcome, queued>>

perDelivery == <<delivery, decisions, handlerCalls, replies, events, fault,
                 sanitizeCalls, chatPosts, mediaUploads, auditRecords>>

engine == <<call, requests, auditLog, outcome, queued>>

Cleared ==
    /\ delivery' = NoDelivery
    /\ decisions' = <<>>
    /\ handlerCalls' = <<>>
    /\ replies' = <<>>
    /\ events' = <<>>
    /\ fault' = "none"
    /\ sanitizeCalls' = 0
    /\ chatPosts' = 0
    /\ mediaUploads' = 0
    /\ auditRecords' = 0

NoBrokerError == [kind |-> "none", message |-> {}]

\* the consumer before consume_messages has done anything
ConsumerInit ==
    /\ loopState = "Disconnected"
    /\ pc = "idle"
    /\ tag = 0
    /\ delivery = NoDelivery
    /\ decisions = <<>>
    /\ handlerCalls = <<>>
    /\ replies = <<>>
    /\ events = <<>>
    /\ fault = "none"
    /\ sanitizeCalls = 0
    /\ chatPosts = 0
    /\ mediaUploads = 0
    /\ auditRecords = 0
    /\ broker \in {"accepting", "failing"}
    /\ brokerError = NoBrokerError
    /\ consumers = <<>>

\* no call of the delivery engine in hand
NoOperation == [name |-> "none"]
NoOutcomeYet == [kind |-> "none"]

EngineInit ==
    /\ call = NoOperation
    /\ requests = <<>>
    /\ auditLog = <<>>
    /\ outcome = NoOutcomeYet
    /\ queued = <<>>

Init == ConsumerInit /\ EngineInit

\* ------------------------------------------------------- consume_messages
\* rabbitmq/handlers.py: the known sources, in the order of SOURCES.items()
SOURCES == <<"twilio", "standard">>

\* the routing pattern a source's queue is bound with
RoutingPattern(source) == <<"source", source, "#">>

\* what str(conn_error) is tested for: the marker texts it contains
Markers == {"CONNECTION_FORCED", "shutdown", "ACCESS_REFUSED"}
ConnectionErrors == SUBSET Markers

\* mutant: a forced close is fatal whether or not the broker is shutting down
IsFatal_forcedAlone(error_message) ==
    \/ "CONNECTION_FORCED" \in error_message
    \/ "ACCESS_REFUSED" \in error_message

\* lines 221 and 226: the two conditions that end the process
IsFatal(error_message) ==
    \/ "CONNECTION_FORCED" \in error_message /\ "shutdown" \in error_message
    \/ "ACCESS_REFUSED" \in error_message

\* mutant: the consumer is registered with automatic acknowledgment
Registration_autoAck(source) ==
    [queue |-> source, durable |-> TRUE,
     routing_key |-> RoutingPattern(source),
     auto_ack |-> TRUE, consumer_tag |-> <<source, "_consumer">>]

\* lines 192-211: one turn of the for loop: queue_declare, queue_bind and
\* basic_consume for one source
Registration(source) ==
    [queue |-> source, durable |-> TRUE,
     routing_key |-> RoutingPattern(source),
     auto_ack |-> FALSE, consumer_tag |-> <<source, "_consumer">>]

\* lines 186-188: BlockingConnection, channel and assert_exchange succeed
Connect ==
    /\ loopState = "Disconnected"
    /\ broker = "accepting"
    /\ loopState' = "Connecting"
    /\ consumers' = <<>>
    /\ UNCHANGED <<pc, tag, perDelivery, broker, brokerError, engine>>

\* lines 191-211: the next source of SOURCES gets its queue declared, bound
\* and consumed from; after the last one the loop is left
DeclareAndBind ==
    /\ loopState = "Connecting"
    /\ broker = "accepting"
    /\ consumers' = Append(consumers, Registration(SOURCES[Len(consumers) + 1]))
    /\ loopState' = IF Len(consumers) + 1 = Len(SOURCES)
                    THEN "Bound" ELSE "Connecting"
    /\ UNCHANGED <<pc, tag, perDelivery, broker, brokerError, engine>>

\* line 214: channel.start_consuming()
StartConsuming ==
    /\ loopState = "Bound"
    /\ loopState' = "Consuming"
    /\ UNCHANGED <<pc, tag, perDelivery, broker, brokerError, consumers,
                   engine>>

\* lines 215-231: an AMQPConnectionError raised by a call of lines 186-214
\* is caught: sys.exit(1) on a fatal message, time.sleep(5) otherwise
ConnectionError(error_message) ==
    /\ loopState \in {"Disconnected", "Connecting", "Consuming"}
    /\ pc = "idle"
    /\ broker = "failing"
    /\ loopState' = IF IsFatal(error_message) THEN "Exited" ELSE "Sleeping"
    /\ brokerError' = [kind |-> "connection", message |-> error_message]
    /\ consumers' = <<>>
    /\ UNCHANGED <<pc, tag, perDelivery, broker, engine>>

\* lines 185-215: an AMQPChannelError raised by assert_exchange, queue_declare,
\* queue_bind, basic_consume or start_consuming is no AMQPConnectionError:
\* no except clause takes it and it leaves consume_messages
ChannelError ==
    /\ loopState \in {"Disconnected", "Connecting", "Consuming"}
    /\ pc = "idle"
    /\ broker = "failing"
    /\ loopState' = "Crashed"
    /\ brokerError' = [kind |-> "channel", message |-> {}]
    /\ consumers' = <<>>
    /\ UNCHANGED <<pc, tag, perDelivery, broker, engine>>

\* line 231 and back to line 177: time.sleep(5) is over, the while loop
\* starts again
Retry ==
    /\ loopState = "Sleeping"
    /\ loopState' = "Disconnected"
    /\ brokerError' = NoBrokerError
    /\ UNCHANGED <<pc, tag, perDelivery, broker, consumers, engine>>

\* the broker starts or stops accepting the consumer's connection
BrokerChange ==
    /\ pc = "idle"
    /\ loopState \notin {"Exited", "Crashed"}
    /\ broker' = IF broker = "accepting" THEN "failing" ELSE "accepting"
    /\ UNCHANGED <<loopState, pc, tag, perDelivery, brokerError, consumers,
                   engine>>

\* start_consuming hands a delivery to the callback
Receive ==
    /\ loopState = "Consuming"
    /\ pc = "idle"
    /\ broker = "accepting"
    /\ tag < MaxDeliveries
    /\ pc' = "received"
    /\ tag' = tag + 1
    /\ \E d \in Deliveries : delivery' = d
    /\ UNCHANGED <<loopState, decisions, handlerCalls, replies, events,
                   fault, sanitizeCalls, chatPosts, mediaUploads, auditRecords,
                   broker, brokerError, consumers, engine>>

\* the callback runs; an exception that leaves it leaves consume_messages too
Callback ==
    /\ pc = "received"
    /\ \E h \in HandlerChoices(delivery), sn \in SanitizeChoices(delivery) :
       \E o \in {callback(delivery, tag, h, sn)} :
           /\ decisions' = o.decisions
           /\ handlerCalls' = o.handlerCalls
           /\ replies' = o.replies
           /\ events' = o.events
           /\ fault' = o.fault
           /\ sanitizeCalls' = o.sanitizeCalls
           /\ chatPosts' = o.posts
           /\ mediaUploads' = o.uploads
           /\ auditRecords' = o.audits
           /\ loopState' = IF o.fault = "none" THEN loopState ELSE "Crashed"
    /\ pc' = "returned"
    /\ UNCHANGED <<tag, delivery, broker, brokerError, consumers, engine>>

\* the callback has returned: start_consuming waits for the next delivery
Return ==
    /\ pc = "returned"
    /\ loopState = "Consuming"
    /\ pc' = "idle"
    /\ Cleared
    /\ UNCHANGED <<loopState, tag, broker, brokerError, consumers, engine>>

Next ==
    \/ Connect
    \/ DeclareAndBind
    \/ StartConsuming
    \/ \E e \in ConnectionErrors : ConnectionError(e)
    \/ ChannelError
    \/ Retry
    \/ BrokerChange
    \/ Receive
    \/ Callback
    \/ Return

Spec == Init /\ [][Next]_vars

\* the same loop fed from a few deliveries, for the properties of
\* consume_messages that need its steps to be taken: a loop that can take
\* its next statement takes it, and time.sleep(5) ends
LoopDeliveries ==
    {d \in Deliveries :
        /\ d.payload.kind = "object"
        /\ d.routing_key = <<"source", "standard", "msg">>
        /\ d.payload.message = [EmptyMessage EXCEPT !.source = Str("standard"),
                                                    !.body = Text(<<"a", "u">>)]
        /\ d.reply_to = NoStr
        /\ d.correlation_id = NoStr}

ReceiveLoop ==
    /\ loopState = "Consuming"
    /\ pc = "idle"
    /\ broker = "accepting"
    /\ tag < MaxDeliveries
    /\ pc' = "received"
    /\ tag' = tag + 1
    /\ \E d \in LoopDeliveries : delivery' = d
    /\ UNCHANGED <<loopState, decisions, handlerCalls, replies, events,
                   fault, sanitizeCalls, chatPosts, mediaUploads, auditRecords,
                   broker, brokerError, consumers, engine>>

LoopNext ==
    \/ Connect
    \/ DeclareAndBind
    \/ StartConsuming
    \/ \E e \in ConnectionErrors : ConnectionError(e)
    \/ ChannelError
    \/ Retry
    \/ BrokerChange
    \/ ReceiveLoop
    \/ Callback
    \/ Return

LoopSpec ==
    /\ Init
    /\ [][LoopNext]_vars
    /\ WF_vars(Connect)
    /\ WF_vars(DeclareAndBind)
    /\ WF_vars(StartConsuming)
    /\ WF_vars(Retry)

\* ---------------------------------------------------- the delivery engine
\* utils/groupme.py and rabbitmq/publisher.py.  A call of the engine is a
\* record of its arguments and of what the network and the broker answer
\* while it runs; its result is the HTTP requests it made, the audit records
\* it handed to the publisher and the way it ended.
MaxLen == 4
MaxLimit == 3
\* the longest body, and the largest GROUPME_CHARACTER_LIMIT, of the calls of
\* send_text_segments
MaxTextLen == 15
MaxTextLimit == 5

GROUPME_API == "https://api.groupme.com/v3/bots/post"
GROUPME_IMAGE_API == "https://image.groupme.com/pictures"
GROUPME_BOT_ID == "bot-id"
GROUPME_ACCESS_TOKEN == "access-token"

\* how a call ends: it returns a value or raises an exception
None == "None"
Value(v) == [kind |-> "returned", value |-> v]
Raise(e) == [kind |-> "raised", exception |-> e]

\* the exceptions `except requests.exceptions.RequestException` takes
RequestExceptions == {"RequestException", "ConnectionError", "Timeout"}

\* ------------------------------------------------------------ split_message
Alphabet == {"a", "b"}
Bodies == UNION {[1..n -> Alphabet] : n \in 0..MaxLen}

\* GROUPME_CHARACTER_LIMIT == abs(int(...)): any natural number, 0 included
Limits == 0..MaxLimit

\* range(0, stop, step), step > 0
Range(stop, step) ==
    [k \in 1..((stop + step - 1) \div step) |-> (k - 1) * step]

\* body[i : j]
Slice(body, i, j) ==
    SubSeq(body, i + 1, IF j < Len(body) THEN j ELSE Len(body))

\* mutant: the slice that is shorter than the limit is dropped
split_message_fullOnly(body, limit) ==
    IF limit = 0 THEN Raise("ValueError")
    ELSE LET starts == Range((Len(body) \div limit) * limit, limit)
         IN  Value([k \in DOMAIN starts |->
                        Slice(body, starts[k], starts[k] + limit)])

\* [body[i : i + limit] for i in range(0, len(body), limit)];
\* range() raises ValueError for a step of 0
split_message(body, limit) ==
    IF limit = 0 THEN Raise("ValueError")
    ELSE LET starts == Range(Len(body), limit)
         IN  Value([k \in DOMAIN starts |->
                        Slice(body, starts[k], starts[k] + limit)])

\* ------------------------------------------------------ rabbitmq/publisher
\* what the broker does with a publish: it takes it, or connecting fails
\* (AMQPConnectionError), or the channel fails (AMQPChannelError)
PublishOutcomes == {"published", "AMQPConnectionError", "AMQPChannelError"}

\* publish_message(request_body, routing_key, connection_name): the message
\* goes out under source.<routing_key>; an AMQPConnectionError is caught and
\* logged, any other pika error leaves the function.  The connection is
\* opened at line 47 unless connecting fails, and closed at line 67 only,
\* after basic_publish has returned
publish_message(request_body, routing_key, connection_name, pub) ==
    [audits |-> << [routing_key |-> <<"source">> \o routing_key,
                    body |-> request_body,
                    connection_name |-> connection_name,
                    published |-> pub = "published",
                    opened |-> pub # "AMQPConnectionError",
                    closed |-> pub = "published"] >>,
     outcome |-> IF pub = "AMQPChannelError" THEN Raise(pub) ELSE Value(None)]

\* a dict payload for the chat endpoint, and the bytes of a fetched image
Dict(text, picture_url) ==
    [type |-> "dict", text |-> text, picture_url |-> picture_url,
     bot_id |-> NoStr]
Bytes(content) == [type |-> "bytes", content |-> content]

\* the default of publish_log_pg's sub_key parameter
DefaultSubKey == "log"

\* publish_log_pg(body, source, statuscode, uid, routing_key): {**body, ...}
\* raises TypeError when body is no mapping; sub_key is never passed
publish_log_pg(body, source, statuscode, uid, routing_key, pub) ==
    IF body.type # "dict"
    THEN [audits |-> <<>>, outcome |-> Raise("TypeError")]
    ELSE publish_message([text |-> body.text,
                          picture_url |-> body.picture_url,
                          bot_id |-> body.bot_id,
                          source |-> source,
                          code |-> statuscode,
                          type |-> DefaultSubKey,
                          uid |-> uid],
                         routing_key, "GroupMeLogPublisherConnection", pub)

\* ---------------------------------------------------------- send_to_groupme
\* what requests.post / requests.get gives: a response or a network fault
Response(status) == [kind |-> "response", status |-> status]
Fault(e) == [kind |-> "raised", exception |-> e]
PostResults ==
    {Response(s) : s \in {200, 202, 400, 500}} \cup {Fault("ConnectionError")}

SyntheticStatus == 500
MsgKey == <<"groupme", "msg">>
ImgKey == <<"groupme", "img">>

\* mutant: the network fault is audited and then swallowed
send_to_groupme_swallows(body, source, uid, bot_id, post, pub) ==
    LET sent == [body EXCEPT !.bot_id = Str(bot_id)]
        request == [method |-> "POST", url |-> GROUPME_API, data |-> sent,
                    result |-> post]
        a == publish_log_pg(sent, source,
                            IF post.kind = "response" THEN post.status
                            ELSE SyntheticStatus,
                            uid, MsgKey, pub)
    IN  [requests |-> <<request>>,
         audits |-> a.audits,
         outcome |-> IF a.outcome.kind = "raised" THEN a.outcome
                     ELSE Value(None)]

\* mutant: a network fault leaves without an audit record
send_to_groupme_noAuditOnFault(body, source, uid, bot_id, post, pub) ==
    LET sent == [body EXCEPT !.bot_id = Str(bot_id)]
        request == [method |-> "POST", url |-> GROUPME_API, data |-> sent,
                    result |-> post]
        a == publish_log_pg(sent, source, post.status, uid, MsgKey, pub)
    IN  IF post.kind = "response"
        THEN [requests |-> <<request>>,
              audits |-> a.audits,
              outcome |-> IF a.outcome.kind = "raised" THEN a.outcome
                          ELSE Value(None)]
        ELSE [requests |-> <<request>>,
              audits |-> <<>>,
              outcome |-> Raise(post.exception)]

\* send_to_groupme(body, source, uid, bot_id): lines 220-248.  The response's
\* status is logged and audited, nothing is returned; a RequestException is
\* audited with 500 and raised again.  An exception of publish_log_pg is no
\* RequestException and leaves the function as it is.
send_to_groupme(body, source, uid, bot_id, post, pub) ==
    LET sent == [body EXCEPT !.bot_id = Str(bot_id)]
        request == [method |-> "POST", url |-> GROUPME_API, data |-> sent,
                    result |-> post]
        a == publish_log_pg(sent, source,
                            IF post.kind = "response" THEN post.status
                            ELSE SyntheticStatus,
                            uid, MsgKey, pub)
    IN  [requests |-> <<request>>,
         audits |-> a.audits,
         outcome |-> IF a.outcome.kind = "raised" THEN a.outcome
                     ELSE IF post.kind = "response" THEN Value(None)
                     ELSE Raise(post.exception)]

\* mutant: the loop goes on with the next payload after a raise
RECURSIVE SendEach_keepsGoing(_, _, _, _, _, _)
SendEach_keepsGoing(payloads, index, source, uid, posts, pub) ==
    IF index > Len(payloads)
    THEN [requests |-> <<>>, audits |-> <<>>, outcome |-> Value(None)]
    ELSE LET r == send_to_groupme(payloads[index], source, uid, GROUPME_BOT_ID,
                                  posts[index], pub)
             rest == SendEach_keepsGoing(payloads, index + 1, source, uid,
                                         posts, pub)
         IN  [requests |-> r.requests \o rest.requests,
              audits |-> r.audits \o rest.audits,
              outcome |-> IF r.outcome.kind = "raised" THEN r.outcome
                          ELSE rest.outcome]

\* the for loops of send_text_segments and send_images: one send_to_groupme
\* per payload, in order, until one of them raises
RECURSIVE SendEach(_, _, _, _, _, _)
SendEach(payloads, index, source, uid, posts, pub) ==
    IF index > Len(payloads)
    THEN [requests |-> <<>>, audits |-> <<>>, outcome |-> Value(None)]
    ELSE LET r == send_to_groupme(payloads[index], source, uid, GROUPME_BOT_ID,
                                  posts[index], pub)
         IN  IF r.outcome.kind = "raised" THEN r
             ELSE LET rest == SendEach(payloads, index + 1, source, uid,
                                       posts, pub)
                  IN  [requests |-> r.requests \o rest.requests,
                       audits |-> r.audits \o rest.audits,
                       outcome |-> rest.outcome]

\* uid.split("-", 1)[0]: the tokens of the id before its first hyphen
RECURSIVE before_dash_split(_)
before_dash_split(uid) ==
    IF uid = <<>> \/ Head(uid) = "-" THEN <<>>
    ELSE <<Head(uid)>> \o before_dash_split(Tail(uid))

\* mutant: every segment carries the end marker
Rendered_markerEverywhere(segment, index, total_segments, uid) ==
    (IF total_segments > 1
     THEN <<"(", ToString(index), "/", ToString(total_segments), "):\n">>
     ELSE <<>>)
    \o <<"\"">> \o segment \o <<"\"">>
    \o <<"\n---UID---\n">> \o before_dash_split(uid) \o <<"\n---------">>

\* f'{segment_label}"{segment}"{end_marker}'
Rendered(segment, index, total_segments, uid) ==
    (IF total_segments > 1
     THEN <<"(", ToString(index), "/", ToString(total_segments), "):\n">>
     ELSE <<>>)
    \o <<"\"">> \o segment \o <<"\"">>
    \o (IF index = total_segments
        THEN <<"\n---UID---\n">> \o before_dash_split(uid) \o <<"\n---------">>
        ELSE <<>>)

\* send_text_segments(segments, source, uid): lines 147-171
send_text_segments(segments, source, uid, posts, pub) ==
    SendEach([i \in DOMAIN segments |->
                  Dict(Text(Rendered(segments[i], i, Len(segments), uid)), NoStr)],
             1, source, uid, posts, pub)

\* send_images(images, source, uid): lines 188-196
send_images(images, source, uid, posts, pub) ==
    SendEach([i \in DOMAIN images |-> Dict(Text(<<>>), Str(images[i]))],
             1, source, uid, posts, pub)

\* ------------------------------------------------------------- upload_image
\* mutant: text/html is taken for an image type
mime_types_withHtml == {"image/gif", "image/jpeg", "image/png", "text/html"}

\* the keys of the mime_types dict, lines 46-50
mime_types == {"image/gif", "image/jpeg", "image/png"}

\* str.lower() on the Content-Type values of the model
lower(content_type) ==
    IF content_type = "IMAGE/PNG" THEN "image/png" ELSE content_type

\* image_response: a network fault, or a status with a Content-Type header
\* ("" when the header is absent) and the bytes of image_response.content
FetchResults ==
    {Fault("ConnectionError")}
    \cup {[kind |-> "response", status |-> 404, content_type |-> "image/png",
           content |-> "not-found"]}
    \cup {[kind |-> "response", status |-> 200, content_type |-> c,
           content |-> "image-bytes"] :
             c \in {"image/png", "IMAGE/PNG", "text/html", ""}}

\* the answer of the image service
UploadResults ==
    {Response(s) : s \in {200, 500}} \cup {Fault("Timeout")}

\* response.json() of the image service
Handle == "picture-handle"

\* upload_image(image_url, source, uid, access_token): lines 52-113.  A
\* RequestException ends in `return None`; the TypeError that publish_log_pg
\* raises for the bytes of image_response.content is none and leaves the
\* function
upload_image(image_url, source, uid, access_token, fetch, upload, pub) ==
    LET get == [method |-> "GET", url |-> image_url, data |-> Bytes(""),
                result |-> fetch]
        post == [method |-> "POST", url |-> GROUPME_IMAGE_API,
                 data |-> Bytes(fetch.content), result |-> upload]
        a == publish_log_pg(Bytes(fetch.content), source, upload.status, uid,
                            ImgKey, pub)
    IN  IF fetch.kind = "raised" \/ fetch.status # 200
        THEN [requests |-> <<get>>, audits |-> <<>>, outcome |-> Value(None)]
        ELSE IF lower(fetch.content_type) \notin mime_types
        THEN [requests |-> <<get>>, audits |-> <<>>, outcome |-> Value(None)]
        ELSE IF upload.kind = "raised"
        THEN [requests |-> <<get, post>>, audits |-> <<>>,
              outcome |-> Value(None)]
        ELSE [requests |-> <<get, post>>,
              audits |-> a.audits,
              outcome |-> IF a.outcome.kind = "raised"
                          THEN IF a.outcome.exception \in RequestExceptions
                               THEN Value(None) ELSE a.outcome
                          ELSE IF upload.status = 200 THEN Value(Handle)
                          ELSE Value(None)]

\* ------------------------------------------------------------- the handler
\* Handler.process of rabbitmq/handlers.py for a text message: split the
\* non-empty body, deliver the segments, and turn a delivery-layer fault into
\* a false result
process_message(body, source, uid, limit, posts, pub) ==
    LET segments == split_message(body, limit)
        sent == send_text_segments(segments.value, source, uid, posts, pub)
    IN  IF body = <<>>
        THEN [requests |-> <<>>, audits |-> <<>>, outcome |-> Value(TRUE)]
        ELSE IF segments.kind = "raised"
        THEN [requests |-> <<>>, audits |-> <<>>, outcome |-> segments]
        ELSE [requests |-> sent.requests,
              audits |-> sent.audits,
              outcome |-> IF sent.outcome.kind = "returned" THEN Value(TRUE)
                          ELSE IF sent.outcome.exception \in RequestExceptions
                          THEN Value(FALSE)
                          ELSE sent.outcome]

\* the message and the delivery the handler is called for
HandledMessage(body, source, uid) ==
    [EmptyMessage EXCEPT !.source = Str(source), !.body = Text(body),
                         !.wbor_message_id = Text(uid)]

HandledDelivery(body, source, uid) ==
    [payload |-> [kind |-> "object", message |-> HandledMessage(body, source, uid)],
     routing_key |-> <<"source", source, "msg">>,
     headers |-> [table |-> TRUE, alreadysent |-> [p |-> TRUE, v |-> TRUE]],
     reply_to |-> NoStr, correlation_id |-> NoStr]

\* what the callback is told of the handler's run
HandlerOutcome(r) ==
    [result |-> IF r.outcome.kind = "returned"
                THEN (IF r.outcome.value THEN "true" ELSE "false")
                ELSE IF r.outcome.exception = "KeyError" THEN "KeyError"
                ELSE "fault",
     posts |-> Len(r.requests), uploads |-> 0, audits |-> Len(r.audits)]

\* ---------------------------------------------------- utils/command_parser
\* uid=MessageUtils.gen_uuid() in the signature of send_to_groupme: the default
\* is evaluated once, when the function is defined
DefaultUid == gen_uuid(0)

\* str.lower() on the command words of the model
CommandLower(word) == IF word = "!PING" THEN "!ping" ELSE word

\* the reply text of execute_command(text); text is given by its words, as
\* text.split(" ") cuts it.  admin is what utils.admin's ban() or get_stats()
\* comes to.  No reply is sent for !stats when get_stats() gives statistics
Reply(text, admin) ==
    LET command == CommandLower(text[1])
        uid_arg == IF Len(text) > 1 THEN text[2] ELSE "NO_UID"
    IN  CASE command = "!help" -> Text(<<"Available commands">>)
          [] command = "!ping" -> Text(<<"Pong! UID: ", uid_arg>>)
          [] command = "!ban" ->
                IF admin THEN Text(<<"banned ", uid_arg>>)
                ELSE Text(<<"Problem banning ", uid_arg>>)
          [] command = "!unban" ->
                IF admin THEN Text(<<"UNBANNED ", uid_arg>>)
                ELSE Text(<<"Problem unbanning ", uid_arg>>)
          [] command = "!stats" ->
                IF admin THEN NoText
                ELSE Text(<<"Problem fetching ", uid_arg>>)
          [] OTHER -> Text(<<"Unknown command">>)

\* execute_command(text): every reply goes out through
\* GroupMe.send_to_groupme(body, source="command_parser"), without a uid
execute_command(text, admin, post, pub) ==
    IF ~Reply(text, admin).p
    THEN [requests |-> <<>>, audits |-> <<>>, outcome |-> Value(None)]
    ELSE send_to_groupme(Dict(Reply(text, admin), NoStr), "command_parser",
                         DefaultUid, GROUPME_BOT_ID, post, pub)

\* ------------------------------------------------------------ routes/send
\* config.py: the password of the direct-send route
APP_PASSWORD == "secret"

\* body.remove("password"): a dict has no method `remove`
dict_remove(body, key) == Raise("AttributeError")

\* send_message(), lines 44-81, for the request body `body`.  The view ends
\* with the text it returns, or with the exception that leaves it (which
\* Flask answers with 500 Internal Server Error)
send_message(body, pub) ==
    LET stripped == [body EXCEPT !.password = NoStr]
        missing_fields == ~body.body.p \/ ~body.source.p
        \* line 64 tests the list extra_fields against a list of strings
        extra_fields == body.images.p \/ body.wbor_message_id.p
        message == IF stripped.wbor_message_id.p THEN stripped
                   ELSE [stripped EXCEPT !.wbor_message_id = Text(gen_uuid(0))]
        sent == publish_message(message, <<body.source.v>>,
                                "GroupMePublisherConnection", pub)
    IN  IF (IF body.password.p THEN body.password.v ELSE None) # APP_PASSWORD
        THEN [queued |-> <<>>, outcome |-> Value("Unauthorized")]
        ELSE IF dict_remove(body, "password").kind = "raised"
        THEN [queued |-> <<>>, outcome |-> dict_remove(body, "password")]
        ELSE IF missing_fields
        THEN [queued |-> <<>>, outcome |-> Value("Bad Request")]
        ELSE IF extra_fields
        THEN [queued |-> <<>>, outcome |-> Value("Bad Request")]
        ELSE [queued |-> sent.audits,
              outcome |-> IF sent.outcome.kind = "raised" THEN sent.outcome
                          ELSE Value("OK")]

\* ------------------------------------------------------ the engine's calls
Uids == {<<"abc", "-", "123">>, <<"7", "-", "uuid">>}
EngineSources == {"twilio", "standard"}
ImageUrl == "https://media.example/1"
PictureUrl == "https://i.groupme.com/1"
PictureUrl2 == "https://i.groupme.com/2"

SplitCalls ==
    {[name |-> "split_message", body |-> b, limit |-> l] :
        b \in Bodies, l \in Limits}

SendCalls ==
    {[name |-> "send_to_groupme", body |-> b, source |-> s, uid |-> u,
      post |-> p, pub |-> q] :
        b \in {Dict(Text(<<"a">>), NoStr), Dict(Text(<<>>), Str(PictureUrl))},
        s \in EngineSources, u \in Uids, p \in PostResults,
        q \in PublishOutcomes}

ImageCalls ==
    {[name |-> "send_images", images |-> i, source |-> "twilio",
      uid |-> <<"abc", "-", "123">>, posts |-> p, pub |-> q] :
        i \in {<<PictureUrl>>},
        p \in [1..1 -> PostResults], q \in PublishOutcomes}
    \cup
    {[name |-> "send_images", images |-> <<PictureUrl, PictureUrl2>>,
      source |-> "twilio", uid |-> <<"abc", "-", "123">>, posts |-> p,
      pub |-> q] :
        p \in [1..2 -> {Response(200), Response(400), Fault("Timeout")}],
        q \in PublishOutcomes}

\* the answers the chat endpoint gives to the POSTs of one message: a network
\* fault at position failAt (none when failAt = 0), status elsewhere
PostsFailingAt(total, failAt, status) ==
    [k \in 1..total |-> IF k = failAt THEN Fault("ConnectionError")
                        ELSE Response(status)]

\* send_text_segments on the segments of a body of `a`s under a limit
TextCalls ==
    UNION { {[name |-> "send_text_segments", body |-> [i \in 1..n |-> "a"],
              limit |-> l,
              segments |-> split_message([i \in 1..n |-> "a"], l).value,
              source |-> "standard", uid |-> u,
              posts |-> PostsFailingAt((n + l - 1) \div l, f, st),
              pub |-> q] :
                f \in 0..((n + l - 1) \div l), st \in {200, 400}, u \in Uids,
                q \in PublishOutcomes} :
            n \in 0..MaxTextLen, l \in 1..MaxTextLimit }

UploadCalls ==
    {[name |-> "upload_image", image_url |-> ImageUrl, source |-> "twilio",
      uid |-> <<"abc", "-", "123">>, fetch |-> f, upload |-> u, pub |-> q] :
        f \in FetchResults, u \in UploadResults, q \in PublishOutcomes}

\* the bodies handed to the handler, and the answers of the chat endpoint
\* it meets
HandledBodies == {[i \in 1..n |-> "a"] : n \in 0..MaxLen}
HandledPostResults == {Response(200), Response(400), Fault("ConnectionError")}

ProcessCalls ==
    UNION { {[name |-> "process_message", body |-> b, source |-> "standard",
              uid |-> <<"abc", "-", "123">>, limit |-> l, posts |-> p,
              pub |-> q] :
                p \in [1..((Len(b) + l - 1) \div l) -> HandledPostResults],
                q \in PublishOutcomes} :
            b \in HandledBodies, l \in 1..MaxLimit }

\* the JSON bodies posted to /send
RouteRequests ==
    [password : {NoStr, Str("wrong"), Str(APP_PASSWORD)},
     body : {NoText, Text(<<"a">>)},
     source : {NoStr, Str("standard")},
     images : {NoStr, Str(ImageUrl)},
     wbor_message_id : {NoText, Text(<<"abc", "-", "123">>)}]

RouteCalls ==
    {[name |-> "send_message", json |-> j, pub |-> q] :
        j \in RouteRequests, q \in PublishOutcomes}

\* the chat messages handed to the command parser, by their words
CommandTexts ==
    {<<"!help">>, <<"!ping">>, <<"!PING", "abc">>, <<"!ban", "abc">>,
     <<"!unban", "abc">>, <<"!stats", "abc">>, <<"!nope">>}

\* two chat messages parsed one after the other
CommandCalls ==
    {[name |-> "execute_command", texts |-> <<t1, t2>>, admin |-> a,
      post |-> p, pub |-> q] :
        t1 \in CommandTexts, t2 \in CommandTexts, a \in BOOLEAN,
        p \in {Response(200), Fault("ConnectionError")},
        q \in {"published", "AMQPConnectionError"}}

EngineCalls ==
    SplitCalls \cup SendCalls \cup ImageCalls \cup UploadCalls \cup ProcessCalls
    \cup RouteCalls \cup TextCalls \cup CommandCalls

\* the consumer stands still while the engine is looked at on its own
consumer == <<loopState, pc, tag, perDelivery, broker, brokerError, consumers>>

EngineStart ==
    /\ ConsumerInit
    /\ broker = "accepting"
    /\ call \in EngineCalls
    /\ requests = <<>>
    /\ auditLog = <<>>
    /\ outcome = NoOutcomeYet
    /\ queued = <<>>

Pending(name) == call.name = name /\ outcome.kind = "none"

Ended(r) ==
    /\ requests' = r.requests
    /\ auditLog' = r.audits
    /\ outcome' = r.outcome
    /\ UNCHANGED <<call, queued>>

SplitMessage ==
    /\ Pending("split_message")
    /\ Ended([requests |-> <<>>, audits |-> <<>>,
              outcome |-> split_message(call.body, call.limit)])
    /\ UNCHANGED consumer

SendToGroupMe ==
    /\ Pending("send_to_groupme")
    /\ Ended(send_to_groupme(call.body, call.source, call.uid, GROUPME_BOT_ID,
                             call.post, call.pub))
    /\ UNCHANGED consumer

SendImages ==
    /\ Pending("send_images")
    /\ Ended(send_images(call.images, call.source, call.uid, call.posts,
                         call.pub))
    /\ UNCHANGED consumer

UploadImage ==
    /\ Pending("upload_image")
    /\ Ended(upload_image(call.image_url, call.source, call.uid,
                          GROUPME_ACCESS_TOKEN, call.fetch, call.upload,
                          call.pub))
    /\ UNCHANGED consumer

\* the callback's lines 130-165 around a run of the handler
ProcessMessage ==
    /\ Pending("process_message")
    /\ \E r \in {process_message(call.body, call.source, call.uid, call.limit,
                                 call.posts, call.pub)} :
       \E o \in {Dispatched(NoOutcome,
                            HandledDelivery(call.body, call.source, call.uid),
                            tag,
                            HandledMessage(call.body, call.source, call.uid),
                            HandlerOutcome(r))} :
           /\ Ended(r)
           /\ decisions' = o.decisions
           /\ handlerCalls' = o.handlerCalls
           /\ replies' = o.replies
           /\ events' = o.events
           /\ fault' = o.fault
           /\ chatPosts' = o.posts
           /\ mediaUploads' = o.uploads
           /\ auditRecords' = o.audits
           /\ loopState' = IF o.fault = "none" THEN loopState ELSE "Crashed"
    /\ UNCHANGED <<pc, tag, delivery, sanitizeCalls, broker, brokerError,
                   consumers>>

SendTextSegments ==
    /\ Pending("send_text_segments")
    /\ Ended(send_text_segments(call.segments, call.source, call.uid,
                                call.posts, call.pub))
    /\ UNCHANGED consumer

\* the next chat message is parsed; what it requests and audits adds to what
\* the messages before it did
ExecuteCommand ==
    /\ call.name = "execute_command"
    /\ call.texts # <<>>
    /\ \E r \in {execute_command(Head(call.texts), call.admin, call.post,
                                  call.pub)} :
           /\ requests' = requests \o r.requests
           /\ auditLog' = auditLog \o r.audits
           /\ outcome' = r.outcome
    /\ call' = [call EXCEPT !.texts = Tail(@)]
    /\ UNCHANGED <<queued, consumer>>

SendMessage ==
    /\ Pending("send_message")
    /\ \E r \in {send_message(call.json, call.pub)} :
           /\ outcome' = r.outcome
           /\ queued' = r.queued
    /\ UNCHANGED <<call, requests, auditLog, consumer>>

EngineNext ==
    \/ SplitMessage
    \/ SendToGroupMe
    \/ SendImages
    \/ UploadImage
    \/ ProcessMessage
    \/ SendMessage
    \/ SendTextSegments
    \/ ExecuteCommand

EngineSpec == EngineStart /\ [][EngineNext]_vars

\* ----------------------------------------------------------------- claims
Returned == pc = "returned"
received == delivery.payload.message
IsObject == delivery.payload.kind = "object"
HandlerInvoked == handlerCalls # <<>>
passed == handlerCalls[1].message
OnlyNack == decisions = <<basic_nack(tag)>>
Acked == \E i \in DOMAIN decisions : decisions[i].op = "basic_ack"
HeaderTrue == delivery.headers.alreadysent.p /\ delivery.headers.alreadysent.v

\* C1: every run of the callback issues exactly one acknowledgment decision,
\* basic_ack or basic_nack(requeue=False), for the delivery's tag.
C1_ExactlyOneDecision ==
    Returned =>
        /\ Len(decisions) = 1
        /\ decisions[1].delivery_tag = tag
        /\ decisions[1].op \in {"basic_ack", "basic_nack"}

\* C2: a delivery is acked if and only if a handler was invoked and returned
\* true; every other decision is a basic_nack with requeue=False.
C2_AckIffHandlerTrue ==
    Returned =>
        /\ Acked <=> (HandlerInvoked /\ handlerCalls[1].result = "true")
        /\ \A i \in DOMAIN decisions :
              /\ decisions[i].delivery_tag = tag
              /\ decisions[i].op # "basic_ack" =>
                    decisions[i].op = "basic_nack" /\ decisions[i].requeue = FALSE

C2_Witness ==
    /\ Returned
    /\ HandlerInvoked
    /\ handlerCalls[1].result = "true"
    /\ decisions = <<basic_ack(tag)>>

\* C3: a correlated acknowledgment is published if and only if the handler
\* returned true and the delivery carried a reply-to address and a correlation
\* id; then once, to that address with that id, and before the basic_ack.
C3_ReplyIffSuccessAndCorrelated ==
    Returned =>
        /\ replies # <<>> <=>
              /\ HandlerInvoked
              /\ handlerCalls[1].result = "true"
              /\ TruthyStr(delivery.reply_to)
              /\ TruthyStr(delivery.correlation_id)
        /\ Len(replies) <= 1
        /\ replies # <<>> =>
              /\ replies[1].routing_key = delivery.reply_to.v
              /\ replies[1].correlation_id = delivery.correlation_id.v
              /\ \E i, j \in DOMAIN events :
                    /\ i < j
                    /\ events[i] = "send_acknowledgment"
                    /\ events[j] = "basic_ack"

C3_Witness ==
    /\ Returned
    /\ Len(replies) = 1
    /\ replies[1].routing_key = "amq.reply"
    /\ events = <<"process_message", "send_acknowledgment", "basic_ack">>

\* C4: a message with neither sender identity (From, source) nor a body field
\* (body, Body) is rejected without requeue and reaches no handler; no message
\* reaches a handler without a sender identity.
C4_NoSenderNeverHandled ==
    (Returned /\ IsObject) =>
        /\ ( /\ ~TruthyStr(received.From) /\ ~TruthyStr(received.source)
             /\ ~TruthyText(received.body) /\ ~TruthyText(received.Body) )
           => (OnlyNack /\ ~HandlerInvoked)
        /\ HandlerInvoked =>
              /\ TruthyStr(received.From) \/ TruthyStr(received.source)
              /\ TruthyStr(passed.From) \/ TruthyStr(passed.source)

C4_Witness ==
    /\ Returned
    /\ IsObject
    /\ ~TruthyStr(received.From) /\ ~TruthyStr(received.source)
    /\ ~TruthyText(received.body) /\ ~TruthyText(received.Body)
    /\ delivery.headers.table
    /\ OnlyNack

\* C5: a decoded message whose `source` is missing or is neither the Twilio
\* source nor `standard` is rejected without requeue and reaches no handler;
\* every message a handler is invoked with has a supported `source`.
C5_SourceAllowListClosed ==
    (Returned /\ IsObject) =>
        /\ ~(received.source.p /\ received.source.v \in {TWILIO_SOURCE, "standard"})
           => (OnlyNack /\ ~HandlerInvoked)
        /\ HandlerInvoked =>
              /\ passed.source.p
              /\ passed.source.v \in {TWILIO_SOURCE, "standard"}

C5_Witness ==
    /\ Returned
    /\ IsObject
    /\ received.source = Str("other")
    /\ TruthyStr(received.From)
    /\ TruthyText(received.Body)
    /\ HandlerKey(delivery.routing_key) \in MESSAGE_HANDLERS
    /\ delivery.headers.table
    /\ OnlyNack
    /\ ~HandlerInvoked

\* C6: a rejection made before any handler is invoked has no effect but the
\* nack: no chat post, no media upload, no audit record, no correlated reply.
C6_EarlyRejectionHasNoSideEffects ==
    (Returned /\ ~HandlerInvoked /\ decisions # <<>>) =>
        /\ OnlyNack
        /\ chatPosts = 0
        /\ mediaUploads = 0
        /\ auditRecords = 0
        /\ replies = <<>>

C6_Witness ==
    /\ Returned
    /\ ~HandlerInvoked
    /\ IsObject
    /\ ~SourceAllowed(received)
    /\ TruthyStr(delivery.reply_to)
    /\ TruthyStr(delivery.correlation_id)
    /\ OnlyNack

\* C7: every decodable delivery whose routing key is an entry of the global
\* blocklist of config.py is rejected without requeue and reaches no handler
\* (stated for the runs in which the callback returns).
C7_BlocklistedKeyRejected ==
    (Returned /\ fault = "none"
              /\ json_loads(delivery.payload).raised = "none"
              /\ delivery.routing_key \in GLOBAL_BLOCKLIST)
        => (OnlyNack /\ ~HandlerInvoked)

\* C8: the message a handler is invoked with carries a non-empty
\* wbor_message_id; a non-empty received id is passed on unchanged, and an id
\* is generated only when none was supplied.
C8_IdSetAndNeverReplaced ==
    (Returned /\ HandlerInvoked) =>
        /\ TruthyText(passed.wbor_message_id)
        /\ TruthyText(received.wbor_message_id) =>
              passed.wbor_message_id = received.wbor_message_id
        /\ passed.wbor_message_id # received.wbor_message_id =>
              /\ ~TruthyText(received.wbor_message_id)
              /\ passed.wbor_message_id.v = gen_uuid(tag)

C8_Witness ==
    /\ Returned
    /\ HandlerInvoked
    /\ received.wbor_message_id = Text(<<"abc", "-", "123">>)
    /\ passed.wbor_message_id = Text(<<"abc", "-", "123">>)

\* C9: with the `alreadysent` header true the handler gets the received body
\* fields unchanged and alreadysent=true; with the header absent or false the
\* body field the message is read from holds the sanitized received body, and
\* sanitize_string is called at most once per delivery.
C9_SanitizationGatedByAlreadySent ==
    (Returned /\ HandlerInvoked) =>
        /\ sanitizeCalls <= 1
        /\ HeaderTrue =>
              /\ handlerCalls[1].alreadysent = TRUE
              /\ passed.Body = received.Body
              /\ passed.body = received.body
              /\ sanitizeCalls = 0
        /\ ~HeaderTrue =>
              /\ handlerCalls[1].alreadysent = FALSE
              /\ TruthyText(received.Body) =>
                    /\ passed.Body = Text(sanitize_string(received.Body.v))
                    /\ \A i \in DOMAIN passed.Body.v : passed.Body.v[i] \in Printable
                    /\ sanitizeCalls = 1
              /\ (~TruthyText(received.Body) /\ received.body.p) =>
                    /\ passed.body = Text(sanitize_string(received.body.v))
                    /\ \A i \in DOMAIN passed.body.v : passed.body.v[i] \in Printable
                    /\ sanitizeCalls = 1

C9_Witness ==
    /\ Returned
    /\ HandlerInvoked
    /\ ~delivery.headers.alreadysent.p
    /\ received.Body = Text(<<"u", "a">>)
    /\ passed.Body = Text(<<"a">>)
    /\ sanitizeCalls = 1

\* C10: a delivery that passes field validation but whose routing key names a
\* source without a registered handler is rejected without requeue, causes no
\* chat post, and leaves the consumption loop running.
C10_UnregisteredSourceRejected ==
    ( /\ Returned
      /\ IsObject
      /\ ~MissingRequiredFields(received)
      /\ SourceAllowed(received)
      /\ HandlerKey(delivery.routing_key) \notin MESSAGE_HANDLERS )
    => (OnlyNack /\ chatPosts = 0 /\ fault = "none" /\ loopState = "Consuming")

\* the two fatal conditions as the specification names them
FatalCondition(error_message) ==
    \/ "ACCESS_REFUSED" \in error_message
    \/ {"CONNECTION_FORCED", "shutdown"} \subseteq error_message

\* C11: a connection error ends the process (sys.exit(1), no further connect
\* attempt) exactly when its message holds ACCESS_REFUSED, or both
\* CONNECTION_FORCED and shutdown; after any other connection error the loop
\* sleeps and then starts the connect-declare-bind-consume sequence afresh,
\* again and again, so that once the broker goes on accepting connections the
\* loop reaches the consuming state (unless the process has ended before).
C11_FatalExitsOthersRetry ==
    /\ [](brokerError.kind = "connection" =>
             /\ FatalCondition(brokerError.message) => loopState = "Exited"
             /\ ~FatalCondition(brokerError.message) => loopState = "Sleeping")
    /\ [](loopState = "Exited" =>
             /\ brokerError.kind = "connection"
             /\ FatalCondition(brokerError.message))
    /\ [][loopState = "Exited" => UNCHANGED vars]_vars
    /\ [][loopState = "Sleeping" =>
             \/ loopState' = "Sleeping"
             \/ loopState' = "Disconnected" /\ consumers' = <<>>]_vars
    /\ (loopState = "Sleeping") ~> (loopState = "Disconnected")
    /\ []([](broker = "accepting") =>
             <>(loopState \in {"Consuming", "Exited", "Crashed"}))

C11_Witness ==
    /\ loopState = "Sleeping"
    /\ brokerError = [kind |-> "connection", message |-> {"CONNECTION_FORCED"}]
    /\ tag = 1

\* C12: consuming starts only when every known source has its durable queue
\* declared, bound and consumed from with manual acknowledgment, and a
\* broker-level error of either kind, connection-level or channel-level, in any
\* state brings the loop back to a reconnect unless it is one of the two fatal
\* conditions, which end the process.
C12_BrokerErrorsLeadToReconnect ==
    /\ loopState = "Consuming" =>
          /\ Len(consumers) = Len(SOURCES)
          /\ \A i \in DOMAIN SOURCES :
                /\ consumers[i].queue = SOURCES[i]
                /\ consumers[i].durable
                /\ consumers[i].routing_key = <<"source", SOURCES[i], "#">>
                /\ ~consumers[i].auto_ack
    /\ brokerError.kind # "none" =>
          IF brokerError.kind = "connection" /\ FatalCondition(brokerError.message)
          THEN loopState = "Exited"
          ELSE loopState = "Sleeping"

\* a call of the delivery engine that has ended
Done(name) == call.name = name /\ outcome.kind # "none"

\* C13: for every body no longer than the limit, the empty body included,
\* split_message returns exactly one segment, equal to the body.
C13_ShortBodyIsOneSegment ==
    (Done("split_message") /\ call.limit >= 1 /\ Len(call.body) <= call.limit)
        => outcome = Value(<<call.body>>)

RECURSIVE Concat(_)
Concat(segments) ==
    IF Len(segments) = 0 THEN <<>>
    ELSE Head(segments) \o Concat(Tail(segments))

\* C14: for every body and every limit of at least 1, the segments of
\* split_message put together in order give the body back, no segment is
\* longer than the limit, and only the last one may be shorter than it.
C14_SegmentsReconstructBody ==
    (Done("split_message") /\ call.limit >= 1) =>
        /\ outcome.kind = "returned"
        /\ Concat(outcome.value) = call.body
        /\ \A i \in DOMAIN outcome.value :
              /\ Len(outcome.value[i]) <= call.limit
              /\ i < Len(outcome.value) => Len(outcome.value[i]) = call.limit

C14_Witness ==
    /\ Done("split_message")
    /\ call.limit = 3
    /\ call.body = <<"a", "b", "b", "a">>
    /\ outcome = Value(<< <<"a", "b", "b">>, <<"a">> >>)

\* the status an audit record has to carry for a request
AuditedStatus(request) ==
    IF request.result.kind = "response" THEN request.result.status ELSE 500

\* C15: every call of send_to_groupme hands exactly one audit record to the
\* publisher, whatever the POST came to: it carries the status the endpoint
\* returned, or 500 when the POST raised a network fault, together with the
\* call's payload, source and message id.
C15_OneAuditRecordPerCall ==
    /\ Done("send_to_groupme") =>
          /\ Len(requests) = 1
          /\ requests[1].result = call.post
          /\ Len(auditLog) = 1
          /\ auditLog[1].body.text = call.body.text
          /\ auditLog[1].body.picture_url = call.body.picture_url
          /\ auditLog[1].body.source = call.source
          /\ auditLog[1].body.uid = call.uid
    /\ (Done("send_to_groupme") \/ Done("send_images") \/ Done("process_message"))
          => /\ Len(auditLog) = Len(requests)
             /\ \A i \in DOMAIN requests :
                   /\ auditLog[i].body.code = AuditedStatus(requests[i])
                   /\ auditLog[i].body.text = requests[i].data.text
                   /\ auditLog[i].body.picture_url = requests[i].data.picture_url
                   /\ auditLog[i].body.source = call.source
                   /\ auditLog[i].body.uid = call.uid

C15_Witness ==
    /\ Done("send_to_groupme")
    /\ call.post = Fault("ConnectionError")
    /\ call.body.text = Text(<<"a">>)
    /\ outcome = Raise("ConnectionError")
    /\ Len(auditLog) = 1
    /\ auditLog[1].body.code = 500
    /\ auditLog[1].body.uid = <<"7", "-", "uuid">>

\* C16: the `type` field of every audit record is groupme.msg or groupme.img
\* and tells the kind of call: groupme.msg for the delivery of a text payload,
\* groupme.img for the delivery of a picture_url payload and for a media
\* upload, which leaves such a record whenever the image service answered.
C16_TypeTagMatchesCall ==
    /\ \A i \in DOMAIN auditLog :
          auditLog[i].body.type =
              IF Done("upload_image") \/ TruthyStr(auditLog[i].body.picture_url)
              THEN "groupme.img" ELSE "groupme.msg"
    /\ (Done("upload_image") /\ Len(requests) = 2
                             /\ requests[2].result.kind = "response")
          => Len(auditLog) = 1

C18_FailureStatusRejected ==
    ( /\ Done("process_message")
      /\ call.pub = "published"
      /\ \E i \in DOMAIN requests :
            /\ requests[i].result.kind = "response"
            /\ requests[i].result.status \notin {200, 202} )
    => (decisions = <<basic_nack(tag)>> /\ ~Acked)

\* C19: upload_image lets no fault leave it: on every path it returns the
\* parsed handle or null.
C19_UploadNeverRaises ==
    Done("upload_image") =>
        /\ outcome.kind = "returned"
        /\ outcome.value \in {Handle, None}

\* C20: every upload_image call whose upload POST got a response leaves
\* exactly one audit record with that response's status, on the success and
\* on the failure branch, and returns the parsed handle exactly when the
\* status is 200.
C20_UploadAuditedOncePerResponse ==
    ( /\ Done("upload_image")
      /\ Len(requests) = 2
      /\ requests[2].result.kind = "response" ) =>
        /\ Len(auditLog) = 1
        /\ auditLog[1].body.code = requests[2].result.status
        /\ outcome = Value(Handle) <=> requests[2].result.status = 200

\* the fetch of an upload_image call succeeded with an allowed content type
FetchedImage ==
    /\ call.fetch.kind = "response"
    /\ call.fetch.status = 200
    /\ \/ call.fetch.content_type \in {"image/gif", "image/jpeg", "image/png"}
       \/ call.fetch.content_type = "IMAGE/PNG"

C22_PublisherConnectionsClosed ==
    outcome.kind # "none" =>
        \A i \in DOMAIN auditLog : auditLog[i].opened => auditLog[i].closed

\* what a send_to_groupme call comes to when the audit publish succeeds
UndisturbedOutcome ==
    IF call.post.kind = "response" THEN Value(None)
    ELSE Raise(call.post.exception)

\* C23: a failure of the audit publish (broker unreachable, channel error,
\* payload that cannot be encoded) is only logged: send_to_groupme ends as it
\* does when the publish succeeds, upload_image returns the handle or null,
\* and the handler's result and the delivery's ack/nack decision are those of
\* the chat POSTs alone.
C23_AuditFailureNeverPropagates ==
    /\ Done("send_to_groupme") => outcome = UndisturbedOutcome
    /\ Done("upload_image") =>
          /\ outcome.kind = "returned"
          /\ (Len(requests) = 2 /\ requests[2].result = Response(200))
                => outcome = Value(Handle)
    /\ (Done("process_message") /\ requests # <<>>) =>
          /\ outcome.kind = "returned"
          /\ Len(decisions) = 1
          /\ fault = "none"

\* a request to the direct-send route as the claim sorts it
RightPassword == call.json.password = Str("secret")
HasRequired == call.json.body.p /\ call.json.source.p

\* C24: every request to the direct-send route ends in OK, Unauthorized or
\* Bad Request; a message is handed to the publisher exactly when it ends in
\* OK; a wrong or missing password gives Unauthorized, a request without
\* `body` or `source` Bad Request, both with nothing published; a request with
\* the right password, body and source, with or without images and
\* wbor_message_id, gives OK and the published message holds no password.
C24_RouteOutcomes ==
    Done("send_message") =>
        /\ outcome \in {Value("OK"), Value("Unauthorized"), Value("Bad Request")}
        /\ queued # <<>> <=> outcome = Value("OK")
        /\ ~RightPassword => (outcome = Value("Unauthorized") /\ queued = <<>>)
        /\ (RightPassword /\ ~HasRequired) =>
              (outcome = Value("Bad Request") /\ queued = <<>>)
        /\ (RightPassword /\ HasRequired) =>
              /\ outcome = Value("OK")
              /\ Len(queued) = 1
              /\ ~queued[1].body.password.p

\* the text of an id before its first hyphen
LeadingToken(uid) ==
    IF \E i \in DOMAIN uid : uid[i] = "-"
    THEN SubSeq(uid, 1, (CHOOSE i \in DOMAIN uid :
                            uid[i] = "-" /\ \A j \in 1..(i - 1) : uid[j] # "-") - 1)
    ELSE uid
IdMarker(uid) == <<"\n---UID---\n">> \o LeadingToken(uid) \o <<"\n---------">>
Prefix(k, total) == <<"(", ToString(k), "/", ToString(total), "):\n">>
Quoted(segment) == <<"\"">> \o segment \o <<"\"">>

\* the text the chat receives for segment k of the call in hand
ExpectedText(k) ==
    LET total == Len(call.segments)
    IN  (IF total > 1 THEN Prefix(k, total) ELSE <<>>)
        \o Quoted(call.segments[k])
        \o (IF k = total THEN IdMarker(call.uid) ELSE <<>>)

\* one delivery call per segment, in index order, rendered as stated
OneCallPerSegment ==
    /\ Len(requests) = Len(call.segments)
    /\ \A k \in 1..Len(call.segments) :
          /\ requests[k].method = "POST"
          /\ requests[k].url = GROUPME_API
          /\ requests[k].data.text = Text(ExpectedText(k))

Parts ==
    IF call.name = "send_images"
    THEN [k \in DOMAIN call.images |-> Dict(Text(<<>>), Str(call.images[k]))]
    ELSE [k \in DOMAIN call.segments |-> Dict(Text(ExpectedText(k)), NoStr)]
MultiPartDone == Done("send_text_segments") \/ Done("send_images")

\* C26: the POSTs of a multi-part message are those of a prefix of its parts,
\* one per part and in order, and a POST that raises is the last one: no
\* later part is posted and the part is not posted again.
C26_DeliveryStopsAtFirstFault ==
    MultiPartDone =>
        /\ Len(requests) <= Len(Parts)
        /\ \A k \in DOMAIN requests :
              /\ requests[k].data.text = Parts[k].text
              /\ requests[k].data.picture_url = Parts[k].picture_url
              /\ requests[k].result.kind = "raised" => k = Len(requests)
        /\ (\E k \in DOMAIN call.posts : call.posts[k].kind = "raised") =>
              /\ outcome.kind = "raised"
              /\ Len(requests) <=
                    CHOOSE k \in DOMAIN call.posts :
                        /\ call.posts[k].kind = "raised"
                        /\ \A j \in 1..(k - 1) : call.posts[j].kind # "raised"

C26_Witness ==
    /\ MultiPartDone
    /\ Len(Parts) >= 2
    /\ call.posts[1].kind = "raised"
    /\ call.posts[2].kind = "response"
    /\ Len(requests) = 1
    /\ outcome = Raise(call.posts[1].exception)

\* C27: whenever a handler is invoked, it is the handler of the message's own
\* `source` field (the routing key's second segment equals that field), and
\* the subkey passed is the routing key's remaining segments.
C27_HandlerMatchesSourceField ==
    (Returned /\ HandlerInvoked) =>
        /\ handlerCalls[1].handler = delivery.routing_key[2]
        /\ delivery.routing_key[2] = passed.source.v
        /\ <<"source", handlerCalls[1].handler>> \o handlerCalls[1].subkey
              = delivery.routing_key

\* C28: two distinct delivery calls made without an explicit uid, as the
\* replies of the command parser are, are audited under two different ids.
C28_RepliesAuditedUnderDistinctIds ==
    call.name = "execute_command" =>
        \A i, j \in DOMAIN auditLog :
            i # j => auditLog[i].body.uid # auditLog[j].body.uid

====
